---- MODULE Spec2Model ----
(***************************************************************************)
(* Mention ingestion and deduplication pipeline of liz_dashboard:          *)
(* api/collect.js (RSS collector), api/law360_collect.js (Law360           *)
(* collector) and api/congress_collect.js (legislative tracker), all       *)
(* writing to the same Redis keys mentions:z, mentions:seen and            *)
(* mentions:seen:canon.                                                    *)
(*                                                                         *)
(* Texts, links and keywords are TLA+ strings; a character is a string of  *)
(* length one, read with SubSeq.  Time is in seconds since the epoch.      *)
(***************************************************************************)
EXTENDS Integers, Sequences, FiniteSets, TLC

(***************************************************************************)
(* String primitives of the JavaScript runtime used by the collectors.     *)
(***************************************************************************)
CharAt(s, i) == SubSeq(s, i, i)

UpperChars == "ABCDEFGHIJKLMNOPQRSTUVWXYZ"
LowerChars == "abcdefghijklmnopqrstuvwxyz"
DigitChars == "0123456789"

CharIn(c, chars) == \E i \in 1..Len(chars) : CharAt(chars, i) = c

IsDigit(c) == CharIn(c, DigitChars)

\* \w of a JavaScript regular expression: [A-Za-z0-9_]
IsWordChar(c) == CharIn(c, UpperChars) \/ CharIn(c, LowerChars) \/ IsDigit(c) \/ c = "_"

\* \s of a JavaScript regular expression (the members the model's texts use)
IsSpaceChar(c) == c \in {" ", "\t", "\n"}

LowerOfChar(c) ==
    IF CharIn(c, UpperChars)
    THEN CharAt(LowerChars, CHOOSE i \in 1..Len(UpperChars) : CharAt(UpperChars, i) = c)
    ELSE c

\* F applied to the value of x, with x computed once
ByValue(F(_), x) == CHOOSE r \in {F(v) : v \in {x}} : TRUE

\* the characters lo..hi of s, each replaced: kind "lower" lowers it, kind
\* "nonword" is replace(/[^\w\s]/g, ' ').  The range is mapped by halves.
RECURSIVE MapChars(_, _, _, _)
MapChars(s, lo, hi, kind) ==
    IF lo > hi THEN ""
    ELSE IF lo = hi
    THEN ByValue(LAMBDA c :
             CASE kind = "lower"   -> LowerOfChar(c)
               [] kind = "nonword" -> IF IsWordChar(c) \/ IsSpaceChar(c) THEN c ELSE " ",
             CharAt(s, lo))
    ELSE ByValue(LAMBDA mid : MapChars(s, lo, mid, kind) \o MapChars(s, mid + 1, hi, kind),
                 (lo + hi) \div 2)

\* String.prototype.toLowerCase
toLowerCase(s) == ByValue(LAMBDA v : MapChars(v, 1, Len(v), "lower"), s)

\* String.prototype.replace(/[^\w\s]/g, ' ')
replaceNonWord(s) == ByValue(LAMBDA v : MapChars(v, 1, Len(v), "nonword"), s)

\* String.prototype.includes
Includes(s, k) ==
    \E v \in {s} : \E i \in 1..(Len(v) - Len(k) + 1) : SubSeq(v, i, i + Len(k) - 1) = k

\* Array.prototype.some(keyword => text.includes(keyword))
IncludesAny(s, keywords) == \E v \in {s} : \E k \in keywords : Includes(v, k)

StartsWith(s, p) == Len(s) >= Len(p) /\ SubSeq(s, 1, Len(p)) = p
EndsWith(s, p) == Len(s) >= Len(p) /\ SubSeq(s, Len(s) - Len(p) + 1, Len(s)) = p

Min(S) == CHOOSE i \in S : \A j \in S : i <= j
Max(S) == CHOOSE i \in S : \A j \in S : j <= i

NonSpaceAt(s) == {i \in 1..Len(s) : ~IsSpaceChar(CharAt(s, i))}

\* String.prototype.trim
Trim(s) ==
    ByValue(LAMBDA v :
        ByValue(LAMBDA at : IF at = {} THEN "" ELSE SubSeq(v, Min(at), Max(at)),
                NonSpaceAt(v)),
        s)

\* the piece of s that starts after the cut p: up to the next member of seps
PieceAfter(s, seps, p) == SubSeq(s, p + 1, Min({j \in seps \cup {Len(s) + 1} : j > p}) - 1)

\* the members of a set of integers, in increasing order
RECURSIVE Sorted(_)
Sorted(S) ==
    IF S = {} THEN <<>>
    ELSE ByValue(LAMBDA least : <<least>> \o Sorted(S \ {least}), Min(S))

\* pieces of s between the positions in seps, each a one-character separator
PiecesBetween(s, seps) ==
    ByValue(LAMBDA cuts : [k \in DOMAIN cuts |-> PieceAfter(s, seps, cuts[k])],
            Sorted(seps \cup {0}))

\* text.split(/\s+/): the pieces between maximal runs of whitespace; a run
\* counts as one separator: the cut is at its first character and the rest
\* of the run is dropped from the front of the piece that follows
SplitWs(s) ==
    ByValue(LAMBDA v :
        ByValue(LAMBDA runStarts :
                    ByValue(LAMBDA pieces : [k \in DOMAIN pieces |-> Trim(pieces[k])],
                            PiecesBetween(v, runStarts)),
                {i \in 1..Len(v) : /\ IsSpaceChar(CharAt(v, i))
                                    /\ (i = 1 \/ ~IsSpaceChar(CharAt(v, i - 1)))}),
        s)

\* text.split(sep) for a one-character separator
SplitOn(s, sep) ==
    ByValue(LAMBDA v :
        ByValue(LAMBDA seps : PiecesBetween(v, seps),
                {i \in 1..Len(v) : CharAt(v, i) = sep}),
        s)

\* Array.prototype.join(sep), joined by halves
RECURSIVE Join(_, _)
Join(words, sep) ==
    IF Len(words) = 0 THEN ""
    ELSE IF Len(words) = 1 THEN words[1]
    ELSE ByValue(LAMBDA mid : Join(SubSeq(words, 1, mid), sep) \o sep
                                \o Join(SubSeq(words, mid + 1, Len(words)), sep),
                 Len(words) \div 2)

SeqToSet(q) == {q[i] : i \in DOMAIN q}

(***************************************************************************)
(* Near-duplicate detector: normalizeText and textSimilarity.              *)
(***************************************************************************)
stopWords ==
    {"the", "a", "an", "and", "or", "but", "in", "on", "at", "to", "for", "of",
     "with", "by", "from", "as", "is", "was", "are", "were", "been", "be", "has",
     "have", "had", "will", "would", "could", "should", "may", "might", "must", "can"}

KeepWord(word) == Len(word) > 3 /\ word \notin stopWords

normalizeText(text) ==
    ByValue(LAMBDA words : Join(words, " "),
            SelectSeq(SplitWs(replaceNonWord(toLowerCase(text))), KeepWord))

\* new Set(text.split(' '))
WordSet(text) == SeqToSet(SplitOn(text, " "))

\* the overlap coefficient: the intersection over the smaller of the two sets
textSimilarity_Overlap(text1, text2) ==
    ByValue(LAMBDA words1 :
        ByValue(LAMBDA words2 :
                    <<Cardinality(words1 \cap words2),
                      Min({Cardinality(words1), Cardinality(words2)})>>,
                WordSet(text2)),
        WordSet(text1))

\* intersection.size / union.size, kept as the pair <<numerator, denominator>>
textSimilarity(text1, text2) ==
    ByValue(LAMBDA words1 :
        ByValue(LAMBDA words2 :
                    <<Cardinality(words1 \cap words2), Cardinality(words1 \cup words2)>>,
                WordSet(text2)),
        WordSet(text1))

\* similarity >= 0.6 on the quotient of two small integers: n/d >= 3/5
AtLeastThreshold(sim) == 5 * sim[1] >= 3 * sim[2]

(***************************************************************************)
(* Content filter chain: isPressRelease and shouldFilterArticle.           *)
(***************************************************************************)
pressReleaseKeywords ==
    {"prnewswire", "pr newswire", "business wire", "businesswire",
     "pr web", "prweb", "globenewswire", "globe newswire",
     "accesswire", "press release", "news release"}

isPressRelease(title, summary, source) ==
    LET text == toLowerCase(title \o " " \o summary \o " " \o source)
    IN  IncludesAny(text, pressReleaseKeywords)

opinionIndicators ==
    {"opinion:", "op-ed:", "commentary:", "editorial:", "column:",
     "guest column", "my view:", "viewpoint:", "perspective:",
     "letter to", "letters:", "i believe", "in my opinion",
     "we need to", "it's time to", "why we should", "why we must"}

opinionUrlPatterns == {"/opinion/", "/commentary/", "/op-ed/", "/editorial/", "/columns/"}

shoppingKeywords ==
    {"on sale for", "buy now and save", "limited time offer",
     "shop the collection", "shop now", "save up to",
     "discount code", "promo code", "coupon code",
     "free shipping", "best deals", "price drop"}

stockPriceKeywords ==
    {"stock price", "share price", "stock rises", "stock falls", "stock drops",
     "shares rise", "shares fall", "shares drop", "stock jumps", "stock climbs",
     "trading at", "trades at", "market cap", "stock market", "wall street",
     "stock analyst", "price target", "earnings per share", "eps", "stock ticker",
     "nasdaq", "nyse", "dow jones", "stock rallies", "stock plunges",
     "investors", "shareholders", "stock performance", "quarterly earnings",
     "stock rating", "buy rating", "sell rating", "hold rating",
     "pre-market", "after-hours trading", "stock watch", "market watch"}

stockFocusedPhrases ==
    {"stock up", "stock down", "shares up", "shares down",
     "gains on", "drops on", "stock cheap", "stock expensive",
     "stock performs", "stock move", "stock climbs", "stock falls",
     "stock outlook", "stock forecast", "stock analysis", "stock valuation"}

financialSources ==
    {"morningstar", "seekingalpha", "marketwatch", "barrons",
     "motley fool", "zacks", "tipranks", "gurufocus"}

incidentKeywords ==
    {"incident", "crash", "emergency", "accident", "diverted", "grounded",
     "delayed", "cancellation", "mechanical issue", "safety concern",
     "investigation", "turbulence", "forced landing", "engine failure",
     "medical emergency", "unruly passenger"}

routeKeywords ==
    {"new route", "adds service", "launches flight", "new destination",
     "expands service", "adds flight", "inaugural flight", "direct flight to",
     "nonstop service", "new nonstop", "will fly to", "service to",
     "announces route", "route from", "route to", "flights to",
     "flights from", "adding flights", "new flights", "begins service",
     "starts service", "route expansion", "flight schedule", "new service to",
     "increases flights", "increases service", "adds daily flight",
     "cuts service", "ends operations at", "exits market", "suspends flights"}

airportSecurityKeywords ==
    {"tsa investigating", "tsa finds", "tsa discovered", "tsa checkpoint",
     "security checkpoint", "airport security", "screeners found",
     "went through security", "hazardous item", "weapon found", "security breach"}

genericAirlineKeywords ==
    {"airlines will not have to", "airlines must", "airlines face",
     "airline industry", "aviation industry", "carriers including",
     "among airlines", "airlines like delta", "delta and other airlines",
     "major airlines", "u.s. airlines", "domestic carriers"}

faaGenericKeywords ==
    {"faa ends", "faa lifts", "faa issues", "faa requires",
     "flight restriction order", "airspace restriction", "faa rule"}

geographicKeywords ==
    {"albemarle county", "albemarle, nc", "albemarle north carolina",
     "city of albemarle", "charlottesville", "albemarle sound",
     "albemarle road", "albemarle st", "albemarle street", "albemarle ave",
     "zoning", "rezoning", "land use", "parcel", "planning board"}

ticketBuyingKeywords ==
    {"how to get tickets", "how to buy", "where to buy tickets", "ticket guide",
     "buying guide", "purchase tickets", "get your tickets", "buy tickets",
     "tickets available", "on sale now", "tickets on sale", "cheapest tickets",
     "best way to get", "how to find tickets"}

eventFocusedKeywords ==
    {"game preview", "game recap", "match preview", "match recap",
     "starting lineup", "injury report", "game day", "matchup",
     "vs.", "vs ", " v ", " @ ",
     "score", "final score", "box score", "play-by-play",
     "postgame", "pregame", "halftime", "overtime",
     "wins", "loses", "defeats", "beats", "victory", "defeated",
     "touchdown", "home run", "goal", "basket", "points scored",
     "playoff", "championship game", "world series", "super bowl",
     "nba game", "nfl game", "mlb game", "nhl game", "mls game",
     "sports event", "sporting event", "game tonight", "game tomorrow",
     "season opener", "season finale", "game highlights", "game results",
     "team wins", "team loses", "game score", "final result",
     "concert review", "concert recap", "setlist",
     "performs at", "performed at", "performance at",
     "takes the stage", "opening act", "headliner",
     "tour stops", "tour date", "concert venue",
     "live performance", "live show", "sold out show",
     "encore", "acoustic set", "concert tonight", "concert tomorrow",
     "show tonight", "show tomorrow", "music event",
     "event recap", "event review", "event highlights",
     "what happened at", "photos from", "watch highlights",
     "event coverage", "event results", "event tonight"}

businessKeywords ==
    {"stubhub fees", "stubhub pricing", "service charge", "platform",
     "marketplace", "resale", "secondary market",
     "ticket platform", "ticket marketplace", "dynamic pricing",
     "all-in pricing", "transparency", "price guarantee",
     "ticket protection", "fanprotect", "customer service",
     "refund policy", "ticket delivery", "mobile tickets",
     "stubhub ceo", "stubhub lawsuit", "stubhub settlement",
     "stubhub acquisition", "stubhub merger", "stubhub revenue",
     "stubhub investigation", "stubhub probe", "watchdog", "antitrust"}

\* const text = `${title} ${summary}`.toLowerCase()
FilterText(title, summary) == toLowerCase(title \o " " \o summary)

\* /\$\d+(\.\d{2})?/.test(titleLower): a dollar sign followed by a digit
hasPriceInTitle(titleLower) ==
    \E t \in {titleLower} :
        \E i \in 1..(Len(t) - 1) : CharAt(t, i) = "$" /\ IsDigit(CharAt(t, i + 1))

isEarningsSnapshot(title) ==
    \/ Includes(title, "Earnings Snapshot")
    \/ Includes(title, "Q3 Earnings Snapshot")
    \/ Includes(title, "Q4 Earnings Snapshot")
    \/ Includes(title, "Q1 Earnings Snapshot")
    \/ Includes(title, "Q2 Earnings Snapshot")

isOpinion(title, link) ==
    LET hasOpinionMarker == IncludesAny(toLowerCase(title), opinionIndicators)
        isOpinionUrl == link # "" /\ IncludesAny(toLowerCase(link), opinionUrlPatterns)
    IN  hasOpinionMarker \/ isOpinionUrl

isShopping(title, summary) ==
    LET hasShopping == IncludesAny(FilterText(title, summary), shoppingKeywords)
    IN  hasShopping \/ hasPriceInTitle(toLowerCase(title))

\* a stock rule in which a financial source is enough
isStockArticle_SourceAlone(title, summary, source) ==
    \/ IncludesAny(FilterText(title, summary), stockPriceKeywords)
    \/ IncludesAny(toLowerCase(title), stockFocusedPhrases)
    \/ (source # "" /\ IncludesAny(toLowerCase(source), financialSources))

isStockArticle(title, summary, source) ==
    LET stockFocusedInTitle == IncludesAny(toLowerCase(title), stockFocusedPhrases)
        hasStockKeywords == IncludesAny(FilterText(title, summary), stockPriceKeywords)
        isFinancialSource == source # "" /\ IncludesAny(toLowerCase(source), financialSources)
    IN  hasStockKeywords \/ stockFocusedInTitle \/ (hasStockKeywords /\ isFinancialSource)

\* the four rules that run before any origin branch
universalFilter(title, summary, source, link) ==
    \/ isEarningsSnapshot(title)
    \/ isOpinion(title, link)
    \/ isShopping(title, summary)
    \/ isStockArticle(title, summary, source)

deltaFilter(text) ==
    \/ IncludesAny(text, incidentKeywords)
    \/ IncludesAny(text, routeKeywords)
    \/ IncludesAny(text, airportSecurityKeywords)
    \/ IncludesAny(text, genericAirlineKeywords)
    \/ IncludesAny(text, faaGenericKeywords)

isCorporation(text) ==
    \/ Includes(text, "corporation")
    \/ Includes(text, "corp.")
    \/ Includes(text, "company")
    \/ Includes(text, "albemarle corp")
    \/ Includes(text, " alb ")
    \/ Includes(text, "lithium")
    \/ Includes(text, "chemical")
    \/ Includes(text, "kings mountain")
    \/ (Includes(text, "charlotte") /\ Includes(text, "based"))

albemarleFilter(text) ==
    IF IncludesAny(text, geographicKeywords) THEN TRUE
    ELSE ~isCorporation(text)

isTicketGuide(text) == IncludesAny(text, ticketBuyingKeywords)
isEventFocused(text) == IncludesAny(text, eventFocusedKeywords)
isBusinessNews(text) == IncludesAny(text, businessKeywords)

\* the event rule without the business-news override
stubhubFilter_NoOverride(text) ==
    IF isTicketGuide(text) THEN TRUE
    ELSE isEventFocused(text)

stubhubFilter(text) ==
    IF isTicketGuide(text) THEN TRUE
    ELSE isEventFocused(text) /\ ~isBusinessNews(text)

\* a filter whose accept-all branch is missing: every origin gets the rules
\* of the Delta branch
shouldFilterArticle_NoAcceptAll(origin, title, summary, source, link) ==
    universalFilter(title, summary, source, link)
        \/ deltaFilter(FilterText(title, summary))

shouldFilterArticle(origin, title, summary, source, link) ==
    \E text \in {FilterText(title, summary)} :
        IF universalFilter(title, summary, source, link) THEN TRUE
        ELSE IF origin = "delta_air_lines" /\ deltaFilter(text) THEN TRUE
        ELSE IF origin = "guardant_health" THEN FALSE
        ELSE IF origin = "albemarle" /\ albemarleFilter(text) THEN TRUE
        ELSE IF origin = "stubhub" /\ stubhubFilter(text) THEN TRUE
        ELSE FALSE

(***************************************************************************)
(* URL canonicalizer.  new URL(u) is modelled on the links the feeds and   *)
(* the tracker supply: an http(s) scheme, "//", a host, then an optional   *)
(* path, query and fragment made of unreserved characters.  Any other      *)
(* string makes new URL throw.                                             *)
(***************************************************************************)
\* first index >= from whose character is in chars, Len(s) + 1 when none
IndexOfAny(s, chars, from) ==
    Min({i \in from..Len(s) : CharIn(CharAt(s, i), chars)} \cup {Len(s) + 1})

\* the scheme of a trimmed link, "" when it is not http or https
SchemeOf(t) ==
    ByValue(LAMBDA low : IF StartsWith(low, "https://") THEN "https"
                         ELSE IF StartsWith(low, "http://") THEN "http" ELSE "",
            toLowerCase(t))

\* the URL record of the trimmed link t whose host ends before he, path
\* before pe and query before qe
UrlRecord(t, scheme, he, pe, qe) ==
    [ok       |-> TRUE,
     scheme   |-> scheme,
     host     |-> toLowerCase(SubSeq(t, Len(scheme) + 4, he - 1)),
     path     |-> IF he = pe THEN "/" ELSE SubSeq(t, he, pe - 1),
     hasQuery |-> qe > pe,
     query    |-> IF qe > pe THEN SubSeq(t, pe + 1, qe - 1) ELSE "",
     hasHash  |-> qe <= Len(t),
     hash     |-> IF qe <= Len(t) THEN SubSeq(t, qe + 1, Len(t)) ELSE ""]

\* new URL(u): hasQuery is FALSE when the link has no "?" (a null query),
\* hasHash is FALSE when it has no "#"
ParseURL(u) ==
    ByValue(LAMBDA t :
      ByValue(LAMBDA scheme :
        ByValue(LAMBDA he :
          ByValue(LAMBDA pe :
            ByValue(LAMBDA qe :
                      IF scheme = "" \/ he = Len(scheme) + 4
                      THEN [ok |-> FALSE]
                      ELSE UrlRecord(t, scheme, he, pe, qe),
                    IF pe <= Len(t) /\ CharAt(t, pe) = "?"
                    THEN IndexOfAny(t, "#", pe) ELSE pe),
            IndexOfAny(t, "?#", he)),
          IndexOfAny(t, "/?#", Len(scheme) + 4)),
        SchemeOf(t)),
      Trim(u))

\* url.toString()
Href(url) ==
    url.scheme \o "://" \o url.host \o url.path
      \o (IF url.hasQuery THEN "?" \o url.query ELSE "")
      \o (IF url.hasHash THEN "#" \o url.hash ELSE "")

\* url.hash = ""
ClearHash(url) == [url EXCEPT !.hasHash = FALSE, !.hash = ""]

\* url.search = ""
ClearSearch(url) == [url EXCEPT !.hasQuery = FALSE, !.query = ""]

\* url.search getter: "" for an absent or empty query
SearchOf(url) == IF url.query = "" THEN "" ELSE "?" \o url.query

\* url.searchParams: the name/value pairs of the query, empty pieces skipped
ParamOf(piece) ==
    ByValue(LAMBDA p :
        ByValue(LAMBDA e : <<SubSeq(p, 1, e - 1), SubSeq(p, e + 1, Len(p))>>,
                IndexOfAny(p, "=", 1)),
        piece)

IsNonEmpty(piece) == piece # ""

SearchParams(url) ==
    IF ~url.hasQuery THEN <<>>
    ELSE ByValue(LAMBDA pieces : [i \in DOMAIN pieces |-> ParamOf(pieces[i])],
                 SelectSeq(SplitOn(url.query, "&"), IsNonEmpty))

PairText(param) == param[1] \o "=" \o param[2]

SerializeParams(params) ==
    ByValue(LAMBDA ps : Join([i \in DOMAIN ps |-> PairText(ps[i])], "&"), params)

trackingParams ==
    {"utm_source", "utm_medium", "utm_campaign", "utm_term", "utm_content", "utm_id",
     "mc_cid", "mc_eid", "ref", "fbclid", "gclid", "igshid"}

NotTracking(param) == param[1] \notin trackingParams

\* forEach(p => url.searchParams.delete(p)): every delete rewrites the query
\* from the remaining pairs; an empty list leaves no query
DeleteTracking(url) ==
    ByValue(LAMBDA kept :
                IF Len(kept) = 0 THEN ClearSearch(url)
                ELSE [url EXCEPT !.hasQuery = TRUE, !.query = SerializeParams(kept)],
            SelectSeq(SearchParams(url), NotTracking))

StripOneSlash(s) ==
    ByValue(LAMBDA v : IF EndsWith(v, "/") THEN SubSeq(v, 1, Len(v) - 1) ELSE v, s)

\* normalizeUrl of api/collect.js and api/law360_collect.js
normalizeUrl(u) ==
    ByValue(LAMBDA url : IF ~url.ok THEN Trim(u)
                         ELSE StripOneSlash(Href(DeleteTracking(ClearHash(url)))),
            ParseURL(u))

\* normalizeUrl of api/congress_collect.js
congressNormalizeUrl(u) ==
    ByValue(LAMBDA url :
                IF ~url.ok THEN Trim(u)
                ELSE StripOneSlash(Href(IF SearchOf(ClearHash(url)) # ""
                                        THEN ClearSearch(ClearHash(url))
                                        ELSE ClearHash(url))),
            ParseURL(u))

\* hostOf, normalizeHost and displaySource
hostOf(u) == ByValue(LAMBDA url : IF url.ok THEN url.host ELSE "", ParseURL(u))

normalizeHost(h) ==
    ByValue(LAMBDA l :
        ByValue(LAMBDA a : IF StartsWith(a, "amp.") THEN SubSeq(a, 5, Len(a)) ELSE a,
                IF StartsWith(l, "www.") THEN SubSeq(l, 5, Len(l)) ELSE l),
        toLowerCase(h))

displaySource(link, fallback) ==
    ByValue(LAMBDA h : IF h # "" THEN h ELSE fallback, normalizeHost(hostOf(link)))

(***************************************************************************)
(* Mention ids: the 32-bit polynomial hash of the canonical URL.           *)
(***************************************************************************)
\* printable ASCII in code order, from codes 32, 35 and 97
AsciiFrom32 == " !"
AsciiFrom35 == "#$%&'()*+,-./0123456789:;<=>?@ABCDEFGHIJKLMNOPQRSTUVWXYZ[\\]^_"
AsciiFrom97 == "abcdefghijklmnopqrstuvwxyz{|}~"

CodeIn(c, chars, base) == base - 1 + (CHOOSE k \in 1..Len(chars) : CharAt(chars, k) = c)

\* String.prototype.charCodeAt for the printable ASCII characters above
charCodeAt(s, i) ==
    LET c == CharAt(s, i)
    IN  IF CharIn(c, AsciiFrom97) THEN CodeIn(c, AsciiFrom97, 97)
        ELSE IF CharIn(c, AsciiFrom35) THEN CodeIn(c, AsciiFrom35, 35)
        ELSE CodeIn(c, AsciiFrom32, 32)

\* the unsigned 32-bit value h is kept as <<high, low>> 16-bit halves, so
\* that (h * 31 + code) >>> 0 stays within the checker's integers
Half == 65536

\* h = (h * 31 + code) >>> 0
HashStep(h, code) ==
    <<(h[1] * 31 + ((h[2] * 31 + code) \div Half)) % Half, (h[2] * 31 + code) % Half>>

\* the loop over c[lo..hi] started from h: the first half of the range, then
\* the second half from where the first one ended
RECURSIVE HashFrom(_, _, _, _)
HashFrom(c, lo, hi, h) ==
    IF lo > hi THEN h
    ELSE IF lo = hi THEN ByValue(LAMBDA code : HashStep(h, code), charCodeAt(c, lo))
    ELSE ByValue(LAMBDA mid :
            ByValue(LAMBDA hl : HashFrom(c, mid + 1, hi, hl), HashFrom(c, lo, mid, h)),
            (lo + hi) \div 2)

HexDigits == "0123456789abcdef"

RECURSIVE toHex(_)
toHex(n) ==
    IF n < 16 THEN CharAt(HexDigits, n + 1)
    ELSE toHex(n \div 16) \o CharAt(HexDigits, (n % 16) + 1)

\* the low half with its leading zeros, for use after a non-zero high half
toHex4(n) ==
    CharAt(HexDigits, (n \div 4096) + 1) \o CharAt(HexDigits, ((n \div 256) % 16) + 1)
      \o CharAt(HexDigits, ((n \div 16) % 16) + 1) \o CharAt(HexDigits, (n % 16) + 1)

\* Number.prototype.toString(16)
hashToString16(h) ==
    ByValue(LAMBDA v : IF v[1] = 0 THEN toHex(v[2]) ELSE toHex(v[1]) \o toHex4(v[2]), h)

idFromCanonical(prefix, c) ==
    ByValue(LAMBDA v : prefix \o hashToString16(HashFrom(v, 1, Len(v), <<0, 0>>)), c)

(***************************************************************************)
(* Link extraction of the RSS collector (string links, no video ids).      *)
(***************************************************************************)
ParamValue(params, name) ==
    LET hits == SelectSeq(params, LAMBDA p : p[1] = name)
    IN  IF hits = <<>> THEN "" ELSE hits[1][2]

unwrapGoogleAlert(u) ==
    ByValue(LAMBDA url :
                IF url.ok /\ EndsWith(url.host, "google.com") /\ url.path = "/url"
                THEN ByValue(LAMBDA params :
                                 IF ParamValue(params, "q") # "" THEN ParamValue(params, "q")
                                 ELSE IF ParamValue(params, "url") # ""
                                      THEN ParamValue(params, "url") ELSE u,
                             SearchParams(url))
                ELSE u,
            ParseURL(u))

extractItemLink(e) == Trim(unwrapGoogleAlert(e.link))

\* extractItemLink of api/law360_collect.js
law360ExtractItemLink(e) == Trim(e.link)

(***************************************************************************)
(* Time.  Date.now() / 1000 is the variable now; Date.parse of an entry's  *)
(* date is its whole-second epoch when the date parses.                    *)
(***************************************************************************)
Now0 == 2000000
RETENTION_DAYS == 14
RetentionSeconds == RETENTION_DAYS * 24 * 60 * 60
DupWindowSeconds == 48 * 60 * 60

toEpoch(d, nowSec) == IF d.valid THEN d.ts ELSE nowSec

(***************************************************************************)
(* The Redis sorted set mentions:z as a set of [score, member] entries,    *)
(* one per member.                                                         *)
(***************************************************************************)
\* a set that keeps only the member just added
sadd_Replace(S, x) == {x}

\* redis.sadd(key, x): the set afterwards
sadd(S, x) == S \cup {x}

\* a reply that reports every member as newly added
saddReply_AlwaysAdded(S, x) == 1

\* redis.sadd(key, x): the reply, 1 when x was added and 0 when it was there
saddReply(S, x) == IF x \in S THEN 0 ELSE 1

zadd(z, score, member) ==
    {en \in z : en.member # member} \cup {[score |-> score, member |-> member]}

\* a trim that removes nothing
zremrangebyscore_None(z, max) == z

\* redis.zremrangebyscore(ZSET, '-inf', max)
zremrangebyscore(z, max) == {en \in z : ~(en.score <= max)}

\* redis.zrange(ZSET, min, max, { byScore: true })
zrangeByScore(z, min, max) == {en.member : en \in {en2 \in z : min <= en2.score /\ en2.score <= max}}

\* redis.zrange(ZSET, min, '+inf', { byScore: true })
zrangeFrom(z, min) == {en.member : en \in {en2 \in z : min <= en2.score}}

\* the trim that follows every zadd
trimOld(z, nowSec) == zremrangebyscore(z, nowSec - RetentionSeconds)

(***************************************************************************)
(* Configuration: the feeds built from the environment.                    *)
(***************************************************************************)
ALL_FEEDS ==
    << [url |-> "https://alerts.example/delta",    origin |-> "delta_air_lines", section |-> "Delta Air Lines"],
       [url |-> "https://alerts.example/guardant", origin |-> "guardant_health", section |-> "Guardant Health"],
       [url |-> "https://alerts.example/stubhub",  origin |-> "stubhub",         section |-> "Stubhub"],
       [url |-> "https://alerts.example/legacy",   origin |-> "google_alerts",   section |-> "Google Alerts"] >>

\* feed?.title || url, for each feed
FeedTitle == <<"Delta alerts", "Guardant alerts", "StubHub alerts", "Legacy alerts">>

(***************************************************************************)
(* Inputs: the entries each feed can carry.                                *)
(***************************************************************************)
\* an entry as rss-parser returns it; ages lists, in seconds before now, the
\* dates it can carry, and -1 stands for a date that Date.parse rejects
Entry(t, s, l, ages) == [title |-> t, sum |-> s, link |-> l, ages |-> ages]

NoDate == -1

DeltaEntries ==
    { Entry("Delta Adds New AI Chatbot for Customer Service", "",
            "https://news.example.com/delta-chatbot", {0}),
      Entry("Delta Airlines Launches AI-Powered Customer Chatbot", "",
            "https://travel.example.org/delta-ai", {0}) }

GuardantEntries ==
    { Entry("Guardant Cancer Screening", "",
            "https://health.example.com/guardant-screening",
            {0, RetentionSeconds - 1, RetentionSeconds + 86400}),
      Entry("Guardant Cancer Screening Approval Expands", "",
            "https://med.example.org/guardant-approval", {0}),
      Entry("Oncology Blood Test Coverage Widens", "",
            "https://Health.example.com/guardant-screening/?utm_source=rss#top", {0}),
      Entry("Guardant Health Press Release on Shield Test", "",
            "https://wire.example.com/guardant-shield", {0}),
      Entry("AI Is Up", "", "https://health.example.com/ai-up", {NoDate}),
      Entry("Go On Now", "", "https://health.example.com/go-on", {0}) }

StubhubEntries ==
    { Entry("StubHub Playoff Resale Fees Draw Scrutiny", "",
            "https://biz.example.com/stubhub-fees", {0}),
      Entry("Lakers Playoff Game Recap", "Seats sold through StubHub",
            "https://sports.example.com/lakers-recap", {0}),
      Entry("How to Buy Playoff Tickets on Resale Marketplace", "",
            "https://sports.example.com/playoff-tickets", {0}) }

LegacyEntries ==
    { Entry("Law Firms Adopt Contract Review Tools", "",
            "https://mfa-spam.example.co.uk/contract-tools", {0}),
      Entry("Opinion: London Court Weighs Chatbot Evidence", "",
            "https://news.example.co.uk/chatbot-evidence", {0}),
      Entry("Vendor News Release Details Drafting Assistant", "",
            "https://mfa-spam.example/drafting-assistant", {0}),
      Entry("  ", "", "", {0}) }

FeedEntries == <<DeltaEntries, GuardantEntries, StubhubEntries, LegacyEntries>>

\* e.isoDate || e.pubDate || e.published || e.updated, as toEpoch reads it
EntryDates(e, nowSec) ==
    {IF a = NoDate THEN [valid |-> FALSE, ts |-> 0] ELSE [valid |-> TRUE, ts |-> nowSec - a]
       : a \in e.ages}

(***************************************************************************)
(* External classifiers imported by the RSS collector.                     *)
(***************************************************************************)
BlockedDomains == {"mfa-spam.example", "mfa-spam.example.co.uk"}
InternationalSources == {"news.example.co.uk", "mfa-spam.example.co.uk"}

isBlockedDomain(link) == normalizeHost(hostOf(link)) \in BlockedDomains

isInternationalArticle(title, summary, link, source) == source \in InternationalSources

(***************************************************************************)
(* Mentions built by the collectors.  published is the ISO form of         *)
(* published_ts and is not carried; ENABLE_SENTIMENT is off.               *)
(***************************************************************************)
\* `${article.title} ${article.summary || ''}`
ArticleText(article) == article.title \o " " \o article.summary

(***************************************************************************)
(* What the loop body derives from an entry before it touches the store,   *)
(* computed once per feed and entry.                                       *)
(***************************************************************************)
\* the filter chain in front of the near-duplicate check: the stage that
\* drops the entry, or "pass"
FilterStage_AcceptAllFirst(origin, title, sum, source, link) ==
    IF origin \in {"guardant_health", "google_alerts"} THEN "pass"
    ELSE IF isPressRelease(title, sum, source) THEN "press_release"
    ELSE IF isBlockedDomain(link) THEN "blocked"
    ELSE IF isInternationalArticle(title, sum, link, source) THEN "international"
    ELSE IF shouldFilterArticle(origin, title, sum, source, link) THEN "filtered"
    ELSE "pass"

FilterStage(origin, title, sum, source, link) ==
    IF isPressRelease(title, sum, source) THEN "press_release"
    ELSE IF isBlockedDomain(link) THEN "blocked"
    ELSE IF isInternationalArticle(title, sum, link, source) THEN "international"
    ELSE IF shouldFilterArticle(origin, title, sum, source, link) THEN "filtered"
    ELSE "pass"

RssDerive(f, e) ==
    ByValue(LAMBDA title :
      ByValue(LAMBDA link :
        ByValue(LAMBDA source :
          ByValue(LAMBDA canon :
                    [origin  |-> ALL_FEEDS[f].origin,
                     section |-> ALL_FEEDS[f].section,
                     title   |-> title,
                     sum     |-> e.sum,
                     link    |-> link,
                     source  |-> source,
                     stage   |-> FilterStage(ALL_FEEDS[f].origin, title, e.sum, source, link),
                     canon   |-> canon,
                     mid     |-> idFromCanonical("m_", canon)],
                  normalizeUrl(IF link # "" THEN link ELSE title)),
          displaySource(link, FeedTitle[f])),
        extractItemLink(e)),
      Trim(e.title))

\* tables are sets of <<key, value>> pairs, read with Lookup
Lookup(table, key) == (CHOOSE p \in table : p[1] = key)[2]

RssDerived ==
    UNION {{<<(<<f, e>>), RssDerive(f, e)>> : e \in FeedEntries[f]} : f \in DOMAIN ALL_FEEDS}

\* two more entries the Guardant feed can carry: their links differ only in
\* "Aa" against "BB", two texts with the same polynomial hash
\* the titles of the entries delivered to a run whose store calls are taken
\* one at a time
RunTitles ==
    {"Delta Adds New AI Chatbot for Customer Service",
     "Guardant Cancer Screening",
     "Guardant Cancer Screening Approval Expands",
     "Guardant Health Press Release on Shield Test"}

CollidingEntries ==
    { Entry("Go On Now", "", "https://health.example.com/Aa", {0}),
      Entry("AI Is Up", "", "https://health.example.com/BB", {0}) }

\* the entries of a run whose store calls are taken one at a time
RunEntries ==
    [f \in DOMAIN ALL_FEEDS |->
        {e \in FeedEntries[f] : e.title \in RunTitles}
            \cup (IF ALL_FEEDS[f].origin = "guardant_health" THEN CollidingEntries ELSE {})]

RunDerived ==
    RssDerived \cup {<<(<<f, e>>), RssDerive(f, e)>> :
                        f \in {g \in DOMAIN ALL_FEEDS : ALL_FEEDS[g].origin = "guardant_health"},
                        e \in CollidingEntries}

RssItems == {p[2] : p \in RunDerived}

\* every text the near-duplicate check can be asked to normalize: the
\* candidate's `${title} ${summary}` and the stored article's text
CandidateTexts == {it.title \o " " \o it.sum : it \in RssItems}

StoredTexts ==
    {(IF it.title # "" THEN it.title ELSE "(untitled)") \o " " \o it.sum : it \in RssItems}

normalizedOf == {<<t, normalizeText(t)>> : t \in CandidateTexts \cup StoredTexts}

NormalizedTexts == {p[2] : p \in normalizedOf}

similarityOf ==
    {<<(<<a, b>>), textSimilarity(a, b)>> : a \in NormalizedTexts, b \in NormalizedTexts}

\* a check that never reports a duplicate
isDuplicateStory_Never(title, summary, origin, z, nowSec) == FALSE

\* isDuplicateStory: some article of the last 48 hours with the same origin
\* whose normalized text is at least 60% similar
isDuplicateStory(title, summary, origin, z, nowSec) ==
    \E normalizedContent \in {Lookup(normalizedOf, title \o " " \o summary)},
       twoDaysAgo \in {nowSec - DupWindowSeconds} :
        \E article \in zrangeFrom(z, twoDaysAgo) :
            /\ article.origin = origin
            /\ \E existingContent \in {Lookup(normalizedOf, ArticleText(article))} :
                   \E similarity \in {Lookup(similarityOf, <<normalizedContent, existingContent>>)} :
                       AtLeastThreshold(similarity)

(***************************************************************************)
(* State.                                                                  *)
(***************************************************************************)
VARIABLES
    now,        \* Math.floor(Date.now() / 1000)
    zset,       \* mentions:z
    seenLink,   \* mentions:seen:canon
    seenId,     \* mentions:seen
    rss,        \* the RSS collection run: position, and the counters of its answer
    law,        \* the Law360 collection run: position, and the counters of its answer
    ops,        \* entries and polls handled so far
    last        \* what the latest entry or poll was and how it ended

vars == <<now, zset, seenLink, seenId, rss, law, ops, last>>

MaxOps == 2
MaxTicks == 1

NoOp == [op |-> "none"]

Init ==
    /\ now = Now0
    /\ zset = {}
    /\ seenLink = {}
    /\ seenId = {}
    /\ rss = [pc |-> "idle", feed |-> 1, found |-> 0, stored |-> 0]
    /\ law = [pc |-> "idle", found |-> 0, stored |-> 0, skipped |-> 0]
    /\ ops = 0
    /\ last = NoOp

\* time passes
Tick ==
    /\ now < Now0 + MaxTicks
    /\ now' = now + 1
    /\ UNCHANGED <<zset, seenLink, seenId, rss, law, ops, last>>

(***************************************************************************)
(* RSS collector handler (api/collect.js).                                 *)
(***************************************************************************)
\* a new invocation of the handler; the run before it, if any, has answered
\* with the counters it had reached
RssStart ==
    /\ rss' = [pc |-> "loop", feed |-> 1, found |-> 0, stored |-> 0]
    /\ UNCHANGED <<now, zset, seenLink, seenId, law, ops, last>>

\* one pass of the loop body over entry e of the current feed f
RssItem(f, e, d) ==
    /\ rss.pc = "loop"
    /\ rss.feed = f
    /\ ops < MaxOps
    /\ \E it \in {Lookup(RssDerived, <<f, e>>)}, ts \in {toEpoch(d, now)} :
       \E m \in {[id |-> it.mid, canon |-> it.canon,
                   section |-> it.section,
                   title |-> IF it.title # "" THEN it.title ELSE "(untitled)",
                   link |-> it.link, source |-> it.source, summary |-> it.sum,
                   origin |-> it.origin, published_ts |-> ts]},
          info \in {[op |-> "rss", origin |-> it.origin, title |-> it.title,
                      canon |-> it.canon, ts |-> ts]} :
           IF it.stage # "pass"
           THEN /\ last' = info @@ [outcome |-> it.stage]
                /\ UNCHANGED <<zset, seenLink, seenId, rss>>
           ELSE IF isDuplicateStory(it.title, it.sum, it.origin, zset, now)
           THEN /\ last' = info @@ [outcome |-> "duplicate"]
                /\ rss' = [rss EXCEPT !.found = @ + 1]
                /\ UNCHANGED <<zset, seenLink, seenId>>
           ELSE IF it.canon = ""
           THEN /\ last' = info @@ [outcome |-> "no_canon"]
                /\ UNCHANGED <<zset, seenLink, seenId, rss>>
           ELSE IF saddReply(seenLink, it.canon) # 1
           THEN /\ seenLink' = sadd(seenLink, it.canon)
                /\ last' = info @@ [outcome |-> "seen"]
                /\ UNCHANGED <<zset, seenId, rss>>
           ELSE /\ seenLink' = sadd(seenLink, it.canon)
                /\ seenId' = sadd(seenId, m.id)
                /\ zset' = trimOld(zadd(zset, ts, m), now)
                /\ rss' = [rss EXCEPT !.found = @ + 1, !.stored = @ + 1]
                /\ last' = info @@ [outcome |-> "stored"]
    /\ ops' = ops + 1
    /\ UNCHANGED <<now, law>>

\* the current feed has no more entries
RssNextFeed ==
    /\ rss.pc = "loop"
    /\ rss.feed < Len(ALL_FEEDS)
    /\ rss' = [rss EXCEPT !.feed = @ + 1]
    /\ UNCHANGED <<now, zset, seenLink, seenId, law, ops, last>>

(***************************************************************************)
(* Law360 collector handler (api/law360_collect.js).                       *)
(***************************************************************************)
Law360Entries ==
    { Entry("Judge Sanctions Firm Over Chatbot Citations", "",
            "https://www.law360.com/articles/101", {0}),
      Entry("Sanctions Order Over Chatbot Citations Stands", "",
            "https://www.law360.com/articles/101/?utm_source=feed", {0}),
      Entry("", "", "https://www.law360.com/articles/102", {0}) }

Law360Derive(e) ==
    ByValue(LAMBDA link :
      ByValue(LAMBDA canon :
                [title |-> Trim(e.title),
                 sum   |-> e.sum,
                 link  |-> link,
                 canon |-> canon,
                 mid   |-> idFromCanonical("law360_", canon)],
              normalizeUrl(link)),
      law360ExtractItemLink(e))

Law360Derived == {<<e, Law360Derive(e)>> : e \in Law360Entries}

\* a new invocation of the handler; the run before it, if any, has answered
\* with the counters it had reached
LawStart ==
    /\ law' = [pc |-> "loop", found |-> 0, stored |-> 0, skipped |-> 0]
    /\ UNCHANGED <<now, zset, seenLink, seenId, rss, ops, last>>

\* one pass of the loop body over entry e of the Law360 feed
LawItem(e, d) ==
    /\ law.pc = "loop"
    /\ ops < MaxOps
    /\ \E it \in {Lookup(Law360Derived, e)}, ts \in {toEpoch(d, now)} :
       \E m \in {[id |-> it.mid, canon |-> it.canon, section |-> "Law360",
                   title |-> IF it.title # "" THEN it.title ELSE "(untitled)",
                   link |-> it.link, source |-> "Law360", provider |-> "Law360",
                   summary |-> it.sum, origin |-> "law360", published_ts |-> ts,
                   reach |-> 0]},
          info \in {[op |-> "law", origin |-> "law360", title |-> it.title,
                      canon |-> it.canon, ts |-> ts]} :
           IF it.link = "" \/ it.title = ""
           THEN /\ law' = [law EXCEPT !.skipped = @ + 1]
                /\ last' = info @@ [outcome |-> "skipped"]
                /\ UNCHANGED <<zset, seenLink, seenId>>
           ELSE IF it.canon = ""
           THEN /\ law' = [law EXCEPT !.found = @ + 1, !.skipped = @ + 1]
                /\ last' = info @@ [outcome |-> "no_canon"]
                /\ UNCHANGED <<zset, seenLink, seenId>>
           ELSE IF saddReply(seenLink, it.canon) # 1
           THEN /\ seenLink' = sadd(seenLink, it.canon)
                /\ law' = [law EXCEPT !.found = @ + 1, !.skipped = @ + 1]
                /\ last' = info @@ [outcome |-> "seen"]
                /\ UNCHANGED <<zset, seenId>>
           ELSE /\ seenLink' = sadd(seenLink, it.canon)
                /\ seenId' = sadd(seenId, m.id)
                /\ zset' = trimOld(zadd(zset, ts, m), now)
                /\ law' = [law EXCEPT !.found = @ + 1, !.stored = @ + 1]
                /\ last' = info @@ [outcome |-> "stored"]
    /\ ops' = ops + 1
    /\ UNCHANGED <<now, rss>>

(***************************************************************************)
(* Legislative tracker handler (api/congress_collect.js).                  *)
(***************************************************************************)
TRACKED_BILL == [congress |-> "119", type |-> "hr", number |-> "3838"]

billUrl ==
    "https://www.congress.gov/bill/" \o TRACKED_BILL.congress \o "th-congress/house-bill/"
      \o TRACKED_BILL.number

\* type.toUpperCase() for the tracked bill's type
billId == "HR " \o TRACKED_BILL.number

\* Number -> decimal text, as template literals print it
RECURSIVE toDecimal(_)
toDecimal(n) ==
    IF n < 10 THEN CharAt(DigitChars, n + 1)
    ELSE toDecimal(n \div 10) \o CharAt(DigitChars, (n % 10) + 1)

\* Date.parse of the action dates the API returns, in epoch seconds
ActionDates == {<<"2025-09-10", Now0 - 2 * 86400>>, <<"2025-09-11", Now0 - 86400>>}

\* new Date().toISOString(): a text that differs for different instants
\* (second nowSec, millisecond ms); Date.parse of it floors back to nowSec
toISOString(nowSec, ms) == "T" \o toDecimal(nowSec) \o "." \o toDecimal(ms) \o "Z"

\* what fetchBillDetails and fetchAmendments can return
BillResponses ==
    { [title |-> "National Defense Authorization Act", hasLatest |-> TRUE,
       latestText |-> "Passed House", actionDate |-> "2025-09-10",
       actions |-> <<"On passage Passed by the House">>, amendments |-> 0],
      [title |-> "National Defense Authorization Act", hasLatest |-> TRUE,
       latestText |-> "Received in the Senate", actionDate |-> "2025-09-11",
       actions |-> <<"On passage Passed by the House", "Received in the Senate">>,
       amendments |-> 1],
      [title |-> "National Defense Authorization Act", hasLatest |-> FALSE,
       latestText |-> "", actionDate |-> "",
       actions |-> <<>>, amendments |-> 0] }

Milliseconds == {0, 500}

AnyAction(actions, P(_)) ==
    \E i \in DOMAIN actions : \E t \in {toLowerCase(actions[i])} : P(t)

detectMilestones(actions) ==
    [conference_committee |->
        AnyAction(actions, LAMBDA t : Includes(t, "conference committee") \/ Includes(t, "conferees appointed")),
     conference_report_filed |->
        AnyAction(actions, LAMBDA t : Includes(t, "conference report filed") \/ Includes(t, "conference report submitted")),
     house_vote_scheduled |->
        AnyAction(actions, LAMBDA t : Includes(t, "house") /\ (Includes(t, "scheduled") \/ Includes(t, "rule provides"))),
     house_vote_completed |->
        AnyAction(actions, LAMBDA t : Includes(t, "house") /\ (Includes(t, "passed") \/ Includes(t, "agreed to") \/ Includes(t, "on passage"))),
     senate_vote_scheduled |->
        AnyAction(actions, LAMBDA t : Includes(t, "senate") /\ Includes(t, "scheduled")),
     senate_vote_completed |->
        AnyAction(actions, LAMBDA t : Includes(t, "senate") /\ (Includes(t, "passed") \/ Includes(t, "agreed to"))),
     sent_to_president |->
        AnyAction(actions, LAMBDA t : Includes(t, "presented to president") \/ Includes(t, "sent to president")),
     signed_into_law |->
        AnyAction(actions, LAMBDA t : Includes(t, "signed by president") \/ Includes(t, "became public law"))]

\* milestoneList.join(" | "), or the text used when the list is empty; the
\* check mark in front of each milestone is written "+"
milestoneSummary(ms) ==
    LET milestoneList ==
               (IF ms.conference_committee THEN <<"+ Conference Committee">> ELSE <<>>)
            \o (IF ms.conference_report_filed THEN <<"+ Conference Report Filed">> ELSE <<>>)
            \o (IF ms.house_vote_completed THEN <<"+ House Vote">> ELSE <<>>)
            \o (IF ms.senate_vote_completed THEN <<"+ Senate Vote">> ELSE <<>>)
            \o (IF ms.sent_to_president THEN <<"+ Sent to President">> ELSE <<>>)
            \o (IF ms.signed_into_law THEN <<"+ SIGNED INTO LAW">> ELSE <<>>)
    IN  ByValue(LAMBDA list : IF Len(list) > 0 THEN Join(list, " | ")
                              ELSE "No milestones reached yet",
                milestoneList)

\* const canon = normalizeUrl(billUrl); const mid = idFromCanonical(canon);
billCanon == congressNormalizeUrl(billUrl)
billMid == idFromCanonical("congress_", billCanon)

\* the parts of the mention that do not depend on the time of the poll
BillDerive(b) ==
    ByValue(LAMBDA milestones :
                [canon      |-> billCanon,
                 mid        |-> billMid,
                 milestones |-> milestones,
                 milestoneText |-> milestoneSummary(milestones),
                 latestAction |-> IF b.hasLatest /\ b.latestText # "" THEN b.latestText
                                  ELSE "No recent action"],
            detectMilestones(b.actions))

BillDerived == {<<b, BillDerive(b)>> : b \in BillResponses}

\* the whole handler for one successful fetch of the bill
Poll(b, ms) ==
    /\ ops < MaxOps
    /\ \E it \in {Lookup(BillDerived, b)},
          actionDate \in {IF b.hasLatest /\ b.actionDate # "" THEN b.actionDate
                          ELSE toISOString(now, ms)},
          ts \in {IF b.hasLatest /\ b.actionDate # "" THEN Lookup(ActionDates, b.actionDate)
                  ELSE now} :
       \E summary \in {b.title \o "\n\nLatest Action (" \o actionDate \o "): "
                          \o it.latestAction
                          \o "\n\nMilestones: " \o it.milestoneText
                          \o "\n\nAmendments: " \o toDecimal(b.amendments)} :
       \E m \in {[id |-> it.mid, canon |-> it.canon, section |-> "Congress.gov",
                   title |-> billId \o ": " \o b.title, link |-> billUrl,
                   source |-> "Congress.gov", matched |-> <<"congress", "hr3838">>,
                   summary |-> summary, origin |-> "congress", published_ts |-> ts,
                   bill_number |-> billId, congress_number |-> TRACKED_BILL.congress,
                   milestones |-> it.milestones, amendments_count |-> b.amendments,
                   latest_action |-> it.latestAction, latest_action_date |-> actionDate]} :
           /\ seenId' = sadd(seenId, it.mid)
           /\ seenLink' = sadd(seenLink, it.canon)
           /\ zset' = trimOld(zadd(zset, ts, m), now)
           /\ last' = [op |-> "poll", origin |-> "congress", title |-> m.title,
                       canon |-> it.canon, ts |-> ts, outcome |-> "stored", bill |-> b]
    /\ ops' = ops + 1
    /\ UNCHANGED <<now, rss, law>>

\* fetchBillDetails returned null: the handler answers 500 and stores nothing
PollFail ==
    /\ ops < MaxOps
    /\ last' = [op |-> "poll", origin |-> "congress", title |-> "", canon |-> "",
                ts |-> 0, outcome |-> "fetch_failed"]
    /\ ops' = ops + 1
    /\ UNCHANGED <<now, zset, seenLink, seenId, rss, law>>

Next ==
    \/ Tick
    \/ RssStart
    \/ \E f \in DOMAIN ALL_FEEDS : \E e \in FeedEntries[f] : \E d \in EntryDates(e, now) : RssItem(f, e, d)
    \/ RssNextFeed
    \/ LawStart
    \/ \E e \in Law360Entries : \E d \in EntryDates(e, now) : LawItem(e, d)
    \/ \E b \in BillResponses, ms \in Milliseconds : Poll(b, ms)
    \/ PollFail

Spec == Init /\ [][Next]_vars

(***************************************************************************)
(* Properties.                                                             *)
(***************************************************************************)
\* the stored entries whose mention has canonical URL c
StoredWithCanon(c) == {en \in zset : en.member.canon = c}

\* the step just taken ran the insert path of the RSS or Law360 collector
InsertPathStep == ops' # ops /\ last'.op \in {"rss", "law"}

\* C1: after any sequence of RSS runs, Law360 runs and tracker polls, the
\* time-ordered store never holds two mentions with the same canonical URL.
C1_OneMentionPerCanon ==
    \A a \in zset : \A b \in zset : a.member.canon = b.member.canon => a = b

\* C2 as stated: once an insert of an already indexed canonical URL has been
\* rejected, the store holds exactly one mention with that canonical URL.
C2_ExactlyOneStored ==
    (last.op \in {"rss", "law"} /\ last.outcome = "seen")
        => Cardinality(StoredWithCanon(last.canon)) = 1

\* C2: an RSS or Law360 item whose canonical URL is already in the exact-URL
\* index is not inserted: the step leaves the exact-URL index, the id index
\* and the time-ordered store as they were.
C2_RejectedInsertChangesNothing ==
    [][(InsertPathStep /\ last'.canon # "" /\ last'.canon \in seenLink)
          => /\ last'.outcome # "stored"
             /\ UNCHANGED <<zset, seenId, seenLink>>]_vars

\* a second insert of a stored canonical URL was rejected, one mention stored
C2_Witness ==
    /\ last.op \in {"rss", "law"}
    /\ last.outcome = "seen"
    /\ Cardinality(StoredWithCanon(last.canon)) = 1

\* C3: no step removes a member from the exact-URL index or the id index,
\* and the RSS and Law360 insert paths never admit a canonical URL that the
\* exact-URL index already holds, whether or not its mention is still stored.
C3_IndicesOnlyGrow ==
    [][/\ seenLink \subseteq seenLink'
       /\ seenId \subseteq seenId'
       /\ (InsertPathStep /\ last'.outcome = "stored") => last'.canon \notin seenLink
       /\ \A en \in zset' \ zset :
             en.member.origin # "congress" => en.member.canon \notin seenLink]_vars

\* an indexed canonical URL whose mention was trimmed out is offered again
\* and is rejected
C3_Witness ==
    /\ last.op \in {"rss", "law"}
    /\ last.outcome = "seen"
    /\ last.canon \in seenLink
    /\ StoredWithCanon(last.canon) = {}

\* C4: after a mention published 15 days ago has been inserted and the trim
\* has run, the mention is out of the store, so a range query over the last
\* 14 days does not return it, and the exact-URL index holds its canonical URL.
C4_OldMentionTrimmedButIndexed ==
    (last.op \in {"rss", "law"} /\ last.outcome = "stored"
       /\ last.ts = now - (RetentionSeconds + 86400))
        => /\ StoredWithCanon(last.canon) = {}
           /\ \A m \in zrangeByScore(zset, now - RetentionSeconds, now) : m.canon # last.canon
           /\ last.canon \in seenLink

\* a mention published 15 days ago has just gone through insert and trim
C4_Witness ==
    /\ last.op = "rss"
    /\ last.outcome = "stored"
    /\ last.ts = now - (RetentionSeconds + 86400)
    /\ last.canon \in seenLink

\* C5 as stated: the trim after an insert removes exactly the entries whose
\* score is below now - 14 days; an entry at or after the cutoff, one equal
\* to the cutoff included, is still stored after the trim.
C5_TrimRemovesOnlyBelowCutoff ==
    [][(ops' # ops /\ last'.outcome = "stored")
          => \A en \in zset :
                IF en.score < now' - RetentionSeconds
                THEN en \notin zset'
                ELSE en \in zset']_vars

(***************************************************************************)
(* Near-duplicate suppression and the filter chain.                        *)
(***************************************************************************)
\* the entry of the RSS feeds that the step recorded in l went through
ItemOf(l) ==
    CHOOSE it \in RssItems : it.title = l.title /\ it.origin = l.origin /\ it.canon = l.canon

\* the normalized title and summary of a candidate and of a stored mention
CandidateContent(it) == Lookup(normalizedOf, it.title \o " " \o it.sum)
StoredContent(m) == Lookup(normalizedOf, ArticleText(m))

\* the step just taken ran one pass of the RSS loop body
RssStep == ops' # ops /\ last'.op = "rss"

\* the outcomes of a pass that got past the filter chain
PastFilterChain == {"duplicate", "no_canon", "seen", "stored"}

C6_FirstTitle == "Delta Adds New AI Chatbot for Customer Service"
C6_SecondTitle == "Delta Airlines Launches AI-Powered Customer Chatbot"

\* the similarity the detector computes for the two titles of C6
C6_Similarity ==
    Lookup(similarityOf, <<Lookup(normalizedOf, C6_SecondTitle \o " "),
                           Lookup(normalizedOf, C6_FirstTitle \o " ")>>)

\* the second title is processed while the first is the only mention of
\* its origin stored with a publication time in the last 48 hours
C6_SecondAfterFirst ==
    /\ RssStep
    /\ last'.origin = "delta_air_lines"
    /\ last'.title = C6_SecondTitle
    /\ \E en \in zset : /\ en.member.origin = "delta_air_lines"
                        /\ en.member.title = C6_FirstTitle
                        /\ en.score >= now - DupWindowSeconds
    /\ \A en \in zset : (en.member.origin = "delta_air_lines"
                           /\ en.score >= now - DupWindowSeconds)
                            => en.member.title = C6_FirstTitle

\* C6 as stated: with the first title stored in the last 48 hours, the
\* similarity of the two normalized contents is at least 0.60 and the second
\* item is suppressed as a near-duplicate.
C6_SecondSuppressed ==
    [][C6_SecondAfterFirst
          => /\ AtLeastThreshold(C6_Similarity)
             /\ last'.outcome = "duplicate"]_vars

\* C6: the similarity of the two normalized contents is 3/8, below 0.60,
\* and with the first title the only recent mention of its origin the second
\* item is not suppressed: it goes on to the exact-URL insert.
C6_SecondNotSuppressed ==
    [][C6_SecondAfterFirst
          => /\ C6_Similarity = <<3, 8>>
             /\ ~AtLeastThreshold(C6_Similarity)
             /\ last'.outcome \in {"stored", "seen"}]_vars

\* the second title has been stored next to the recent first one
C6_Witness ==
    /\ last.op = "rss"
    /\ last.title = C6_SecondTitle
    /\ last.outcome = "stored"
    /\ \E en \in zset : /\ en.member.title = C6_FirstTitle
                        /\ en.score >= now - DupWindowSeconds
    /\ \E en \in zset : en.member.title = C6_SecondTitle

\* the tokens that survived normalization
C7_Tokens(content) == {w \in SeqToSet(SplitOn(content, " ")) : w # ""}

\* the Jaccard index of the two token sets as <<numerator, denominator>>,
\* 0 when both are empty
C7_Jaccard(a, b) ==
    IF C7_Tokens(a) \cup C7_Tokens(b) = {} THEN <<0, 1>>
    ELSE <<Cardinality(C7_Tokens(a) \cap C7_Tokens(b)),
           Cardinality(C7_Tokens(a) \cup C7_Tokens(b))>>

C7_JaccardOf ==
    {<<(<<a, b>>), C7_Jaccard(a, b)>> : a \in NormalizedTexts, b \in NormalizedTexts}

\* two quotients <<n, d>> with the same value
SameQuotient(p, q) == p[1] * q[2] = q[1] * p[2]

\* C7 as stated: for every candidate and every stored mention of its origin,
\* the similarity of their normalized contents is the Jaccard index of their
\* token sets, and 0 when no token survives on either side.
C7_SimilarityIsJaccard ==
    \A en \in zset : \A it \in RssItems :
        en.member.origin = it.origin
            => SameQuotient(Lookup(similarityOf, <<CandidateContent(it), StoredContent(en.member)>>),
                            Lookup(C7_JaccardOf, <<CandidateContent(it), StoredContent(en.member)>>))

\* some mention of origin l.origin stored with a publication time in the
\* last 48 hours has a Jaccard index of at least 0.60 with the candidate
C8_RecentSimilarStored(l, z, nowSec) ==
    \E en \in z :
        /\ en.score >= nowSec - DupWindowSeconds
        /\ en.member.origin = l.origin
        /\ AtLeastThreshold(Lookup(C7_JaccardOf, <<CandidateContent(ItemOf(l)),
                                                   StoredContent(en.member)>>))

\* C8 as stated: a candidate that reaches the near-duplicate check is
\* suppressed if and only if the store holds a mention of the same origin,
\* published in the last 48 hours, whose similarity with it is at least 0.60.
C8_DuplicateIffRecentSimilar ==
    [][(RssStep /\ last'.outcome \in PastFilterChain)
          => (last'.outcome = "duplicate" <=> C8_RecentSimilarStored(last', zset, now))]_vars

\* what each stage of the filter chain answers for each entry
RssChecks ==
    {<<it, [press   |-> isPressRelease(it.title, it.sum, it.source),
            blocked |-> isBlockedDomain(it.link),
            intl    |-> isInternationalArticle(it.title, it.sum, it.link, it.source),
            filt    |-> shouldFilterArticle(it.origin, it.title, it.sum, it.source, it.link)]>>
       : it \in RssItems}

\* the first stage of the chain that matches, in the order press release,
\* blocklist, international, origin-specific
FirstMatch(c) ==
    IF c.press THEN "press_release"
    ELSE IF c.blocked THEN "blocked"
    ELSE IF c.intl THEN "international"
    ELSE IF c.filt THEN "filtered"
    ELSE "pass"

\* C9: every pass of the RSS loop drops the item at the first matching stage
\* in the order press release, blocklist, international, origin-specific,
\* and gets past the chain only when no stage matches; no press release is
\* ever stored, whatever its origin.
C9_FirstMatchingStageDrops ==
    /\ last.op = "rss" =>
          \E first \in {FirstMatch(Lookup(RssChecks, ItemOf(last)))} :
              IF first = "pass" THEN last.outcome \in PastFilterChain
              ELSE last.outcome = first
    /\ \A en \in zset : \A it \in RssItems :
          (en.member.id = it.mid /\ en.member.origin = it.origin
             /\ en.member.summary = it.sum /\ en.member.source = it.source
             /\ it.title # "" /\ en.member.title = it.title)
              => ~Lookup(RssChecks, it).press

\* a press release of the accept-all origin has just been dropped at the
\* press-release stage and is not stored
C9_Witness ==
    /\ last.op = "rss"
    /\ last.origin = "guardant_health"
    /\ last.outcome = "press_release"
    /\ Lookup(RssChecks, ItemOf(last)).press
    /\ ~Lookup(RssChecks, ItemOf(last)).filt
    /\ StoredWithCanon(last.canon) = {}

\* which stubhub rules match each entry of the stubhub feed
StubhubChecks ==
    {<<it, [universal |-> universalFilter(it.title, it.sum, it.source, it.link),
            guide     |-> isTicketGuide(FilterText(it.title, it.sum)),
            event     |-> isEventFocused(FilterText(it.title, it.sum)),
            business  |-> isBusinessNews(FilterText(it.title, it.sum))]>>
       : it \in {x \in RssItems : x.origin = "stubhub"}}

\* C10 as stated: a stubhub item with both an event keyword and a
\* business-news keyword is never dropped by the origin-specific filter.
C10_OverrideAlwaysWins ==
    (last.op = "rss" /\ last.origin = "stubhub"
       /\ Lookup(StubhubChecks, ItemOf(last)).event
       /\ Lookup(StubhubChecks, ItemOf(last)).business)
        => last.outcome # "filtered"

\* C10: a stubhub item with both an event keyword and a business-news
\* keyword is not dropped by the origin-specific filter when no universal
\* rule and no ticket-buying-guide phrase matches it: the override wins over
\* the event rule only.
C10_OverrideBeatsEventRule ==
    (last.op = "rss" /\ last.origin = "stubhub"
       /\ Lookup(StubhubChecks, ItemOf(last)).event
       /\ Lookup(StubhubChecks, ItemOf(last)).business
       /\ ~Lookup(StubhubChecks, ItemOf(last)).universal
       /\ ~Lookup(StubhubChecks, ItemOf(last)).guide)
        => last.outcome # "filtered"

\* a stubhub item with an event keyword and a business-news keyword has
\* passed the filter and is stored
C10_Witness ==
    /\ last.op = "rss"
    /\ last.origin = "stubhub"
    /\ last.outcome = "stored"
    /\ Lookup(StubhubChecks, ItemOf(last)).event
    /\ Lookup(StubhubChecks, ItemOf(last)).business

(***************************************************************************)
(* Canonicalization on its own: normalizeUrl applied to links put together *)
(* from parts, and to its own results.                                     *)
(***************************************************************************)
UrlHosts == {"Example.com", "example.com"}
UrlPaths == {"", "/a"}
UrlQueries ==
    { <<>>,
      << <<"utm_source", "x">> >>,
      << <<"id", "1">> >>,
      << <<"id", "1">>, <<"fbclid", "z">> >>,
      << <<"utm_reader", "x">> >> }
UrlFragments == {"", "#frag"}

\* how many slashes a link can carry after its path
MaxSlashes == 2

UrlParts ==
    [host : UrlHosts, path : UrlPaths, slashes : 0..MaxSlashes,
     params : UrlQueries, frag : UrlFragments]

\* links that new URL() rejects
RawLinks == {"  example.com/a ", "not a link"}

Slashes(n) == SubSeq("////////", 1, n)

\* the link a browser or feed would carry for these parts
LinkText(p) ==
    "https://" \o p.host \o p.path \o Slashes(p.slashes)
        \o (IF Len(p.params) = 0 THEN "" ELSE "?" \o SerializeParams(p.params))
        \o p.frag

NoParts == [host |-> "", path |-> "", slashes |-> 0, params |-> <<>>, frag |-> ""]

\* normalizeUrl of every link made of parts
UrlCanonOf == {<<p, normalizeUrl(LinkText(p))>> : p \in UrlParts}

\* const canon = normalizeUrl(link) on a link made of parts
Canonicalize(p) ==
    /\ last' = [op |-> "url", parts |-> p, u |-> LinkText(p),
                canon |-> Lookup(UrlCanonOf, p)]
    /\ UNCHANGED <<now, zset, seenLink, seenId, rss, law, ops>>

\* the same on a link that does not parse
CanonicalizeRaw(u) ==
    /\ last' = [op |-> "url", parts |-> NoParts, u |-> u, canon |-> normalizeUrl(u)]
    /\ UNCHANGED <<now, zset, seenLink, seenId, rss, law, ops>>

\* a stored canonical URL comes back as a link and is canonicalized again
Recanonicalize ==
    /\ last.op = "url"
    /\ last' = [op |-> "url", parts |-> NoParts, u |-> last.canon,
                canon |-> normalizeUrl(last.canon)]
    /\ UNCHANGED <<now, zset, seenLink, seenId, rss, law, ops>>

\* normalizeUrl of api/congress_collect.js on every link made of parts
UrlCongressCanonOf == {<<p, congressNormalizeUrl(LinkText(p))>> : p \in UrlParts}

\* const canon = normalizeUrl(billUrl) of the tracker, on a link made of parts
CongressCanonicalize(p) ==
    /\ last' = [op |-> "congress_url", parts |-> p, u |-> LinkText(p),
                canon |-> Lookup(UrlCongressCanonOf, p)]
    /\ UNCHANGED <<now, zset, seenLink, seenId, rss, law, ops>>

UrlNext ==
    \/ \E p \in UrlParts : Canonicalize(p)
    \/ \E u \in RawLinks : CanonicalizeRaw(u)
    \/ Recanonicalize
    \/ \E p \in UrlParts : CongressCanonicalize(p)

UrlSpec == Init /\ [][UrlNext]_vars

\* C11: canonicalization is idempotent: whatever link was canonicalized,
\* whether it parses or not and however many slashes end its path,
\* canonicalizing the result again gives the result back.
C11_CanonicalizeIdempotent ==
    last.op = "url" => normalizeUrl(last.canon) = last.canon

\* the tracking parameters as C12 lists them: every utm_ name and the six
\* fixed names
C12_IsTracking(param) ==
    \/ StartsWith(param[1], "utm_")
    \/ param[1] \in {"mc_cid", "mc_eid", "ref", "fbclid", "gclid", "igshid"}

C12_Kept(params) == SelectSeq(params, LAMBDA param : ~C12_IsTracking(param))

\* two links that differ at most in the letter case of the host, the
\* fragment, tracking parameters and one trailing slash
C12_SameArticle(p, q) ==
    /\ toLowerCase(p.host) = toLowerCase(q.host)
    /\ p.path = q.path
    /\ p.slashes - q.slashes \in {-1, 0, 1}
    /\ C12_Kept(p.params) = C12_Kept(q.params)

\* C12: two links that differ only in host letter case, fragment, tracking
\* query parameters and one trailing slash have the same canonical form.
C12_SameArticleSameCanon ==
    (last.op = "url" /\ last.parts # NoParts)
        => \A q \in UrlParts :
              C12_SameArticle(last.parts, q) => Lookup(UrlCanonOf, q) = last.canon

C26_CountedStoredIsInStore ==
    (last.op \in {"rss", "law"} /\ last.outcome = "stored")
        => \E en \in StoredWithCanon(last.canon) : en.score = last.ts

(***************************************************************************)
(* The bill tracker.                                                       *)
(***************************************************************************)
\* C13: after a tracker poll has stored the bill mention, every mention of
\* the bill in the store is the snapshot that poll wrote (its score and its
\* title are the ones of the poll): no stale snapshot remains beside it.
C13_LatestSnapshotOnly ==
    (last.op = "poll" /\ last.outcome = "stored")
        => \A en \in StoredWithCanon(last.canon) :
              en.score = last.ts /\ en.member.title = last.title


\* C19: when the tracker has fetched the bill and the canonical URL of the
\* bill is already in the exact-URL index, the insert is rejected: the poll
\* does not end as stored and adds nothing to the time-ordered store.
C19_RepeatedPollRejected ==
    [][(/\ ops' # ops
        /\ last'.op = "poll"
        /\ last'.outcome # "fetch_failed"
        /\ billCanon \in seenLink)
          => last'.outcome # "stored" /\ zset' = zset]_vars

\* C27: a poll is idempotent on unchanged input: when the tracker polls
\* twice in a row and receives the same bill data, the second poll leaves
\* the mentions of the bill in the time-ordered store and both indices as
\* the first poll left them.
C27_RepeatedPollChangesNothing ==
    [][(/\ last.op = "poll"
        /\ last.outcome = "stored"
        /\ ops' # ops
        /\ last'.op = "poll"
        /\ last'.outcome = "stored"
        /\ last'.bill = last.bill)
          => /\ StoredWithCanon(billCanon)' = StoredWithCanon(billCanon)
             /\ UNCHANGED <<seenLink, seenId>>]_vars

(***************************************************************************)
(* The RSS handler with its store calls taken one at a time.  rss maps     *)
(* each invocation to its position and to the parts of its answer; the     *)
(* entries delivered are dated within the retention period.  In RunSpec    *)
(* one invocation follows another, and a feed fetch and every store call   *)
(* can fail; in OverlapSpec two invocations overlap and no call fails.     *)
(***************************************************************************)
Runs == {1}
OverlapRuns == {1, 2}
MaxRunOps == 3
MaxFaults == 1

NoEntry == [title |-> "", sum |-> "", link |-> "", ages |-> {}]

IdleRun == [pc |-> "idle", feed |-> 1, found |-> 0, stored |-> 0, errors |-> <<>>,
            status |-> 0, faults |-> 0, e |-> NoEntry, ts |-> 0]

RunInit ==
    /\ now = Now0
    /\ zset = {}
    /\ seenLink = {}
    /\ seenId = {}
    /\ rss = [r \in Runs |-> IdleRun]
    /\ law = [pc |-> "idle", found |-> 0, stored |-> 0, skipped |-> 0]
    /\ ops = 0
    /\ last = NoOp

RunDates(e) == {d \in EntryDates(e, Now0) : d.valid => d.ts > Now0 - RetentionSeconds}

\* res.status(200).json({ ok: true, ..., found, stored, emailed, errors })
Answer(run) == [run EXCEPT !.pc = "done", !.status = 200, !.e = NoEntry, !.ts = 0]

\* the for loop over ALL_FEEDS moves on, or ends and the handler answers
AfterFeed(run) ==
    IF run.feed < Len(ALL_FEEDS)
    THEN [run EXCEPT !.pc = "fetch", !.feed = @ + 1, !.e = NoEntry, !.ts = 0]
    ELSE Answer(run)

\* the handler gives up with the answer of its outer catch
FeedFailed_Abort(run, message) ==
    [run EXCEPT !.pc = "done", !.status = 500, !.e = NoEntry, !.ts = 0]

\* catch (err) { errors.push({ url, error }) } around one feed
FeedFailed(run, message) ==
    AfterFeed([run EXCEPT !.errors = Append(@, [url |-> ALL_FEEDS[run.feed].url, error |-> message]),
                          !.faults = @ + 1])

\* continue: the loop goes on with the next entry of the feed
NextEntry(run) == [run EXCEPT !.pc = "items", !.e = NoEntry, !.ts = 0]

\* what a step leaves in last
RunInfo(r, step, fault, outcome, canon) ==
    [op |-> "run", run |-> r, step |-> step, fault |-> fault, outcome |-> outcome, canon |-> canon]

\* the item an invocation is working on
RunItem(run) == Lookup(RunDerived, <<run.feed, run.e>>)

\* the scheduler invokes the handler
RunStart(r) ==
    /\ rss[r].pc \in {"idle", "done"}
    /\ rss' = [rss EXCEPT ![r] = [IdleRun EXCEPT !.pc = "fetch"]]
    /\ last' = RunInfo(r, "start", "none", "started", "")
    /\ UNCHANGED <<now, zset, seenLink, seenId, law, ops>>

\* await parser.parseURL(url) returns the feed
Fetch(r) ==
    /\ rss[r].pc = "fetch"
    /\ rss' = [rss EXCEPT ![r].pc = "items"]
    /\ last' = RunInfo(r, "fetch", "none", "fetched", "")
    /\ UNCHANGED <<now, zset, seenLink, seenId, law, ops>>

\* await parser.parseURL(url) throws
FetchFail(r) ==
    /\ rss[r].pc = "fetch"
    /\ rss[r].faults < MaxFaults
    /\ rss' = [rss EXCEPT ![r] = FeedFailed(@, "fetch failed")]
    /\ last' = RunInfo(r, "fetch", "fetch", "error", "")
    /\ UNCHANGED <<now, zset, seenLink, seenId, law, ops>>

\* the loop body up to the filters, for entry e of the current feed
BeginItem(r, e, d) ==
    /\ rss[r].pc = "items"
    /\ ops < MaxRunOps
    /\ e \in RunEntries[rss[r].feed]
    /\ \E it \in {Lookup(RunDerived, <<rss[r].feed, e>>)} :
          IF it.stage # "pass"
          THEN /\ last' = RunInfo(r, "filters", "none", it.stage, it.canon)
               /\ UNCHANGED rss
          ELSE /\ last' = RunInfo(r, "filters", "none", "pass", it.canon)
               /\ rss' = [rss EXCEPT ![r].pc = "check", ![r].e = e, ![r].ts = toEpoch(d, now)]
    /\ ops' = ops + 1
    /\ UNCHANGED <<now, zset, seenLink, seenId, law>>

\* the feed has no more entries
EndFeed(r) ==
    /\ rss[r].pc = "items"
    /\ rss' = [rss EXCEPT ![r] = AfterFeed(@)]
    /\ last' = RunInfo(r, "feed", "none", "feed_done", "")
    /\ UNCHANGED <<now, zset, seenLink, seenId, law, ops>>

\* the faults of one near-duplicate check: none, zrange throws, or JSON.parse
\* throws for one of the entries read
CheckFaults(z, nowSec) ==
    {[kind |-> "none", bad |-> {}], [kind |-> "read", bad |-> {}]}
        \cup {[kind |-> "parse", bad |-> {en}] : en \in {x \in z : x.score >= nowSec - DupWindowSeconds}}

\* a check that reports a duplicate whenever something in it throws
isDuplicateStoryUnder_FailClosed(fault, title, summary, origin, z, nowSec) ==
    fault.kind # "none" \/ isDuplicateStory(title, summary, origin, z, nowSec)

\* the answer of isDuplicateStory under a fault
isDuplicateStoryUnder(fault, title, summary, origin, z, nowSec) ==
    IF fault.kind = "read" THEN FALSE
    ELSE isDuplicateStory(title, summary, origin, z \ fault.bad, nowSec)

\* a duplicate is counted as found and as stored
CountFound_AndStored(run) == [run EXCEPT !.found = @ + 1, !.stored = @ + 1]

\* found++; // Count it as found but don't store
CountFound(run) == [run EXCEPT !.found = @ + 1]

\* if (await isDuplicateStory(...)) { found++; continue; } and the test of canon
Check(r, fault) ==
    /\ rss[r].pc = "check"
    /\ fault.kind # "none" => rss[r].faults < MaxFaults
    /\ \E it \in {RunItem(rss[r])} :
          IF isDuplicateStoryUnder(fault, it.title, it.sum, it.origin, zset, now)
          THEN /\ rss' = [rss EXCEPT ![r] = NextEntry(CountFound([@ EXCEPT
                                  !.faults = IF fault.kind = "none" THEN @ ELSE @ + 1]))]
               /\ last' = RunInfo(r, "check", fault.kind, "duplicate", it.canon) @@ [bad |-> fault.bad]
          ELSE IF it.canon = ""
          THEN /\ rss' = [rss EXCEPT ![r] = NextEntry([@ EXCEPT
                                  !.faults = IF fault.kind = "none" THEN @ ELSE @ + 1])]
               /\ last' = RunInfo(r, "check", fault.kind, "no_canon", it.canon) @@ [bad |-> fault.bad]
          ELSE /\ rss' = [rss EXCEPT ![r].pc = "sadd",
                                     ![r].faults = IF fault.kind = "none" THEN @ ELSE @ + 1]
               /\ last' = RunInfo(r, "check", fault.kind, "not_duplicate", it.canon) @@ [bad |-> fault.bad]
    /\ UNCHANGED <<now, zset, seenLink, seenId, law, ops>>

\* the handler stores nothing for every reply of sadd
addCanonAccepted_Always(addCanon) == TRUE

\* if (addCanon !== 1) continue;
addCanonAccepted(addCanon) == addCanon = 1

\* const addCanon = await redis.sadd(SEEN_LINK, canon)
SaddLink(r) ==
    /\ rss[r].pc = "sadd"
    /\ \E it \in {RunItem(rss[r])} :
          /\ seenLink' = sadd(seenLink, it.canon)
          /\ IF addCanonAccepted(saddReply(seenLink, it.canon))
             THEN /\ rss' = [rss EXCEPT ![r].pc = "saddId"]
                  /\ last' = RunInfo(r, "sadd", "none", "added", it.canon)
             ELSE /\ rss' = [rss EXCEPT ![r] = NextEntry(@)]
                  /\ last' = RunInfo(r, "sadd", "none", "seen", it.canon)
    /\ UNCHANGED <<now, zset, seenId, law, ops>>

\* await redis.sadd(SEEN_ID, mid)
SaddId(r) ==
    /\ rss[r].pc = "saddId"
    /\ \E it \in {RunItem(rss[r])} :
          /\ seenId' = sadd(seenId, it.mid)
          /\ last' = RunInfo(r, "saddId", "none", "added", it.canon)
    /\ rss' = [rss EXCEPT ![r].pc = "zadd"]
    /\ UNCHANGED <<now, zset, seenLink, law, ops>>

\* await redis.zadd(ZSET, { score: ts, member: JSON.stringify(m) })
Zadd(r) ==
    /\ rss[r].pc = "zadd"
    /\ \E it \in {RunItem(rss[r])} :
          /\ zset' = zadd(zset, rss[r].ts,
                          [id |-> it.mid, canon |-> it.canon, section |-> it.section,
                           title |-> IF it.title # "" THEN it.title ELSE "(untitled)",
                           link |-> it.link, source |-> it.source, summary |-> it.sum,
                           origin |-> it.origin, published_ts |-> rss[r].ts])
          /\ last' = RunInfo(r, "zadd", "none", "added", it.canon)
    /\ rss' = [rss EXCEPT ![r].pc = "trim"]
    /\ UNCHANGED <<now, seenLink, seenId, law, ops>>

\* await redis.zremrangebyscore(ZSET, '-inf', cutoffTimestamp); found++; stored++
TrimStep(r) ==
    /\ rss[r].pc = "trim"
    /\ zset' = trimOld(zset, now)
    /\ last' = RunInfo(r, "trim", "none", "stored", RunItem(rss[r]).canon)
    /\ rss' = [rss EXCEPT ![r] = NextEntry([@ EXCEPT !.found = @ + 1, !.stored = @ + 1])]
    /\ UNCHANGED <<now, seenLink, seenId, law, ops>>

\* one of the store calls of the insert throws: the catch around the feed
\* takes over
StoreFails(r) ==
    /\ rss[r].pc \in {"sadd", "saddId", "zadd", "trim"}
    /\ rss[r].faults < MaxFaults
    /\ last' = RunInfo(r, rss[r].pc, "store", "error", RunItem(rss[r]).canon)
    /\ rss' = [rss EXCEPT ![r] = FeedFailed(@, "store unavailable")]
    /\ UNCHANGED <<now, zset, seenLink, seenId, law, ops>>

RunNext ==
    \/ \E r \in DOMAIN rss : RunStart(r)
    \/ \E r \in DOMAIN rss : Fetch(r)
    \/ \E r \in DOMAIN rss : FetchFail(r)
    \/ \E r \in DOMAIN rss : \E e \in RunEntries[rss[r].feed] : \E d \in RunDates(e) : BeginItem(r, e, d)
    \/ \E r \in DOMAIN rss : EndFeed(r)
    \/ \E r \in DOMAIN rss : \E fault \in CheckFaults(zset, now) : Check(r, fault)
    \/ \E r \in DOMAIN rss : SaddLink(r)
    \/ \E r \in DOMAIN rss : SaddId(r)
    \/ \E r \in DOMAIN rss : Zadd(r)
    \/ \E r \in DOMAIN rss : TrimStep(r)
    \/ \E r \in DOMAIN rss : StoreFails(r)

RunSpec == RunInit /\ [][RunNext]_vars


(***************************************************************************)
(* Two overlapping invocations of the RSS handler.                         *)
(***************************************************************************)
OverlapInit ==
    /\ now = Now0
    /\ zset = {}
    /\ seenLink = {}
    /\ seenId = {}
    /\ rss = [r \in OverlapRuns |-> IdleRun]
    /\ law = [pc |-> "idle", found |-> 0, stored |-> 0, skipped |-> 0]
    /\ ops = 0
    /\ last = NoOp

OverlapNext ==
    \/ \E r \in DOMAIN rss : RunStart(r)
    \/ \E r \in DOMAIN rss : Fetch(r)
    \/ \E r \in DOMAIN rss : \E e \in RunEntries[rss[r].feed] : \E d \in RunDates(e) : BeginItem(r, e, d)
    \/ \E r \in DOMAIN rss : EndFeed(r)
    \/ \E r \in DOMAIN rss : Check(r, [kind |-> "none", bad |-> {}])
    \/ \E r \in DOMAIN rss : SaddLink(r)
    \/ \E r \in DOMAIN rss : SaddId(r)
    \/ \E r \in DOMAIN rss : Zadd(r)
    \/ \E r \in DOMAIN rss : TrimStep(r)

OverlapSpec == OverlapInit /\ [][OverlapNext]_vars


(***************************************************************************)
(* Properties of the runs taken one store call at a time.                  *)
(***************************************************************************)
\* the step just taken is a failed fetch of the feed invocation r is at
FetchFailedStep(r) ==
    /\ rss[r].pc = "fetch"
    /\ rss'[r] # rss[r]
    /\ last'.run = r
    /\ last'.fault = "fetch"

\* C14: a failure while fetching or parsing one feed is recorded in the
\* run's error list under the url of that feed and does not abort the run:
\* the counters are kept, the run goes on with the fetch of the next feed,
\* and after the last feed it answers 200 with its counts and its errors;
\* no run answers before it has been through its last feed.
C14_FeedFailureRecordedRunGoesOn ==
    [][\A r \in DOMAIN rss :
          /\ FetchFailedStep(r) =>
                /\ rss'[r].errors = Append(rss[r].errors,
                        [url |-> ALL_FEEDS[rss[r].feed].url, error |-> "fetch failed"])
                /\ rss'[r].found = rss[r].found
                /\ rss'[r].stored = rss[r].stored
                /\ IF rss[r].feed < Len(ALL_FEEDS)
                   THEN rss'[r].pc = "fetch" /\ rss'[r].feed = rss[r].feed + 1
                   ELSE rss'[r].pc = "done"
          /\ (rss'[r].pc = "done" /\ rss[r].pc # "done") =>
                rss'[r].status = 200 /\ rss[r].feed = Len(ALL_FEEDS)]_vars

\* the fetch of the first feed failed, an entry of a later feed was stored,
\* and the run has answered
C14_Witness ==
    \E r \in DOMAIN rss :
        /\ rss[r].pc = "done"
        /\ rss[r].status = 200
        /\ rss[r].errors = <<[url |-> ALL_FEEDS[1].url, error |-> "fetch failed"]>>
        /\ rss[r].stored >= 1


\* C15: a run in which a store call failed ends as a run-level failure: its
\* answer is the 500 of the outer catch, not a 200 that lists the failure
\* among the per-source errors.
C15_StoreFailureIsRunFailure ==
    \A r \in DOMAIN rss :
        (/\ rss[r].pc = "done"
         /\ \E i \in DOMAIN rss[r].errors : rss[r].errors[i].error = "store unavailable")
            => rss[r].status = 500


\* the step just taken is the near-duplicate check of invocation r
CheckStep(r) ==
    /\ rss[r].pc = "check"
    /\ rss'[r] # rss[r]
    /\ last'.run = r
    /\ last'.step = "check"

\* the step left the feed and the run of invocation r as they were
RunGoesOn(r) ==
    /\ rss'[r].errors = rss[r].errors
    /\ rss'[r].feed = rss[r].feed
    /\ rss'[r].status = rss[r].status
    /\ rss'[r].pc \in {"sadd", "items"}

\* C16 as stated: when the store read or the parsing of a stored entry throws
\* during the near-duplicate check, the check reports "not a duplicate" and
\* the candidate goes on to the insert step.
C16_FailedCheckNeverDuplicate ==
    [][\A r \in DOMAIN rss :
          (CheckStep(r) /\ last'.fault \in {"read", "parse"})
              => last'.outcome = "not_duplicate" /\ rss'[r].pc = "sadd"]_vars

\* C16: a failure inside the near-duplicate check never aborts the feed or
\* the run and is not recorded as an error.  When the store read throws the
\* check reports "not a duplicate" and the candidate goes on to the insert
\* step.  When the parsing of a stored entry throws, that entry is skipped
\* and the other entries decide: the candidate is reported a duplicate
\* exactly when another recent entry of its origin is similar to it.
C16_FailedCheckFailsOpen ==
    [][\A r \in DOMAIN rss :
          (CheckStep(r) /\ last'.fault \in {"read", "parse"}) =>
              /\ RunGoesOn(r)
              /\ last'.fault = "read" =>
                    last'.outcome = "not_duplicate" /\ rss'[r].pc = "sadd"
              /\ last'.fault = "parse" =>
                    \E it \in {RunItem(rss[r])} :
                        (last'.outcome = "duplicate")
                            <=> isDuplicateStory(it.title, it.sum, it.origin, zset \ last'.bad, now)]_vars

\* the store read of the check has thrown for a candidate that a stored
\* article is similar to, and the candidate has gone on to the insert step
C16_Witness ==
    /\ last.op = "run"
    /\ last.step = "check"
    /\ last.fault = "read"
    /\ rss[last.run].pc = "sadd"
    /\ \E it \in {RunItem(rss[last.run])} :
           isDuplicateStory(it.title, it.sum, it.origin, zset, now)


\* invocation r has added the canonical URL of its item to the exact-URL
\* index and is on its way to, or just past, the append to the store
Appending(r) == rss[r].pc \in {"saddId", "zadd", "trim"}

\* C17: when two RSS runs overlap and work on items with the same canonical
\* URL, under every interleaving of their store calls at most one of them
\* goes past the add-if-absent on the exact-URL index to the store append,
\* and the store never holds more than one mention with that URL.
C17_OneRunStoresTheUrl ==
    /\ \A r \in DOMAIN rss : \A q \in DOMAIN rss :
          (r # q /\ Appending(r) /\ Appending(q))
              => RunItem(rss[r]).canon # RunItem(rss[q]).canon
    /\ \A c \in seenLink : Cardinality(StoredWithCanon(c)) <= 1

\* both runs have passed the near-duplicate check with the same canonical
\* URL; one is on its way to the store append and the other has just been
\* turned away by the exact-URL index
C17_Witness ==
    /\ last.op = "run"
    /\ last.step = "sadd"
    /\ last.outcome = "seen"
    /\ \E r \in DOMAIN rss :
          /\ r # last.run
          /\ rss[r].pc \in {"saddId", "zadd"}
          /\ RunItem(rss[r]).canon = last.canon


\* C18: redelivery is safe: when an item that has passed the filters and the
\* near-duplicate check is turned away by the exact-URL index because an
\* earlier delivery, completed or interrupted, has added its canonical URL,
\* the store holds exactly one mention with that URL: the item is neither
\* duplicated nor lost.
C18_RedeliveredItemStoredOnce ==
    (last.op = "run" /\ last.step = "sadd" /\ last.outcome = "seen")
        => Cardinality(StoredWithCanon(last.canon)) = 1


FilterStep(r) ==
    /\ rss[r].pc = "items"
    /\ ops' # ops
    /\ last'.run = r
    /\ last'.step = "filters"

\* C22: an item reported as a duplicate by the near-duplicate check is
\* counted as found and not as stored, and handling it leaves the exact-URL
\* index, the id index and the time-ordered store as they were; an item
\* rejected by a filter stage leaves the three as they were too and is
\* counted neither as found nor as stored.
C22_DroppedItemChangesNothing ==
    [][\A r \in DOMAIN rss :
          /\ (CheckStep(r) /\ last'.outcome = "duplicate") =>
                /\ UNCHANGED <<zset, seenLink, seenId>>
                /\ rss'[r].found = rss[r].found + 1
                /\ rss'[r].stored = rss[r].stored
          /\ FilterStep(r) =>
                /\ UNCHANGED <<zset, seenLink, seenId>>
                /\ rss'[r].found = rss[r].found
                /\ rss'[r].stored = rss[r].stored]_vars

\* with one mention stored and counted, a similar item has been reported as
\* a duplicate without any fault: two found, one stored
C22_Witness ==
    /\ last.op = "run"
    /\ last.step = "check"
    /\ last.fault = "none"
    /\ last.outcome = "duplicate"
    /\ rss[last.run].found = 2
    /\ rss[last.run].stored = 1
    /\ Cardinality(zset) = 1


\* the store holds two mentions of one origin with different canonical URLs,
\* both published within the last 48 hours, whose texts are at least 60%
\* similar
SimilarPairStored ==
    \E a \in zset : \E b \in zset :
        /\ a.member.canon # b.member.canon
        /\ a.member.origin = b.member.origin
        /\ a.score >= now - DupWindowSeconds
        /\ b.score >= now - DupWindowSeconds
        /\ AtLeastThreshold(Lookup(similarityOf,
              <<Lookup(normalizedOf, ArticleText(a.member)),
                Lookup(normalizedOf, ArticleText(b.member))>>))

FilterOrigins == {"guardant_health", "google_alerts", "delta_air_lines", "albemarle", "stubhub"}

FilterTitles ==
    {"Guardant Shield Test Wins Approval",
     "Delta Flight Diverted After Emergency",
     "Acme Q3 Earnings Snapshot",
     "Opinion: Why Testing Matters",
     "Guardant Stock Price Jumps",
     "Blood Test Kit Now $49",
     "How to Buy Playoff Tickets on Resale Marketplace"}

FilterSummaries == {"", "Shop now and save"}

FilterSources == {"", "news.example.com", "seekingalpha.com"}

FilterLinks == {"https://news.example.com/a", "https://news.example.com/opinion/a"}

FilterArgs ==
    [origin : FilterOrigins, title : FilterTitles, summary : FilterSummaries,
     source : FilterSources, link : FilterLinks]

\* shouldFilterArticle of every case, with whether one of the four universal
\* rules is what returned true
FilterOf ==
    {<<a, [result |-> shouldFilterArticle(a.origin, a.title, a.summary, a.source, a.link),
           universal |-> universalFilter(a.title, a.summary, a.source, a.link)]>> : a \in FilterArgs}

\* if (shouldFilterArticle(origin, title, sum, source, link)) continue;
Filter(a) ==
    /\ \E r \in {Lookup(FilterOf, a)} :
          last' = [op |-> "filter", args |-> a, result |-> r.result, universal |-> r.universal]
    /\ UNCHANGED <<now, zset, seenLink, seenId, rss, law, ops>>

FilterNext == \E a \in FilterArgs : Filter(a)

FilterSpec == Init /\ [][FilterNext]_vars


\* the origins whose branch accepts everything, or that have no branch
AcceptAllOrigins == {"guardant_health", "google_alerts"}

\* C24: for the accept-all origin and for an origin without a branch the
\* filter never rejects on its own: it returns true exactly when one of the
\* four universal rules (earnings snapshot, opinion, shopping or price,
\* stock market) matches.
C24_AcceptAllOnlyUniversalRules ==
    (last.op = "filter" /\ last.args.origin \in AcceptAllOrigins)
        => (last.result <=> last.universal)

\* an article that the Delta branch rejects is accepted for the accept-all
\* origin
C24_Witness ==
    /\ last.op = "filter"
    /\ last.args.origin = "guardant_health"
    /\ ~last.result
    /\ Lookup(FilterOf, [last.args EXCEPT !.origin = "delta_air_lines"]).result

\* C25: the decision of the filter does not depend on the source: for every
\* origin, title, summary and link it is the same for every source.
C25_SourceDoesNotMatter ==
    last.op = "filter"
        => \A source \in FilterSources :
              Lookup(FilterOf, [last.args EXCEPT !.source = source]).result = last.result

\* an article without a stock word from a financial source is accepted, as
\* it is from any other source
C25_Witness ==
    /\ last.op = "filter"
    /\ last.args.source = "seekingalpha.com"
    /\ ~last.result
    /\ ~Lookup(FilterOf, [last.args EXCEPT !.source = ""]).result

====
